---- MODULE Spec2Model ----
(***************************************************************************)
(* A model of EINDataReader (src/data-reader.js): the CSV record parser,   *)
(* the series normaliser and scale calculator (processDataForChart), the   *)
(* retrieval chain (fetchData) and the tooltip positioner                  *)
(* (einCustomPositioner).                                                  *)
(*                                                                         *)
(* Text is a sequence of tokens: the structural characters "\n", ",",      *)
(* "\"" and " " each are one token, and a maximal run of other characters  *)
(* (which the scanner copies unchanged, one after the other) is one word   *)
(* token.  A JavaScript number is a normalised fraction [n, d], NaN being 0/0.   *)
(* A Date object is a cell of a heap, so that two names of one object      *)
(* see each other's mutations.                                             *)
(***************************************************************************)
EXTENDS Integers, Sequences, FiniteSets, TLC

VARIABLES sheet, maxSteps, stepSize, calls, chart,
          pc, responses, contacted, csvText, outcome,
          active, eventPosition, anchor,
          dataLine, scanned

vars == <<sheet, maxSteps, stepSize, calls, chart,
          pc, responses, contacted, csvText, outcome,
          active, eventPosition, anchor,
          dataLine, scanned>>

chartVars == <<sheet, maxSteps, stepSize, calls, chart>>
fetchVars == <<pc, responses, contacted, csvText, outcome>>
tipVars == <<active, eventPosition, anchor>>
scanVars == <<dataLine, scanned>>

-----------------------------------------------------------------------------
(* Bounds of the model. *)

MaxRows == 3
MaxCalls == 2
MaxElements == 3
MaxLineLen == 5

-----------------------------------------------------------------------------
(* Numbers. *)

\* NaN, written as the fraction 0/0
NaN == [n |-> 0, d |-> 0]

\* the value undefined where a string is expected: a value no text holds
Undefined == <<"<undefined>">>

Abs(x) == IF x < 0 THEN -x ELSE x

RECURSIVE GCD(_, _)
GCD(a, b) == IF b = 0 THEN a ELSE GCD(b, a % b)

Rat(n, d) ==
    LET g == GCD(Abs(n), Abs(d))
        s == IF d < 0 THEN -1 ELSE 1
    IN [n |-> s * (n \div g), d |-> s * (d \div g)]

Num(k) == [n |-> k, d |-> 1]

\* the value undefined where a number is expected, written 1/0
UndefinedNumber == [n |-> 1, d |-> 0]

IsNum(a) == a.d # 0

RatAdd(a, b) ==
    IF IsNum(a) /\ IsNum(b) THEN Rat(a.n * b.d + b.n * a.d, a.d * b.d) ELSE NaN

RatDivInt(a, k) ==
    IF IsNum(a) /\ k # 0 THEN Rat(a.n, a.d * k) ELSE NaN

RatLE(a, b) == a.n * b.d <= b.n * a.d

\* Math.ceil
MathCeil(a) == IF IsNum(a) THEN -((-a.n) \div a.d) ELSE NaN

\* Math.max of two numbers
MathMax(a, b) ==
    IF IsNum(a) /\ IsNum(b) THEN (IF RatLE(a, b) THEN b ELSE a) ELSE NaN

-----------------------------------------------------------------------------
(* Strings as token sequences. *)

NL == "\n"
Comma == ","
Quote == "\""
Space == " "

RECURSIVE TrimLeft(_)
TrimLeft(s) ==
    IF s # <<>> /\ Head(s) = Space THEN TrimLeft(Tail(s)) ELSE s

RECURSIVE TrimRight(_)
TrimRight(s) ==
    IF s # <<>> /\ s[Len(s)] = Space
    THEN TrimRight(SubSeq(s, 1, Len(s) - 1))
    ELSE s

\* String.prototype.trim
Trim(s) == TrimRight(TrimLeft(s))

\* String.prototype.split on a one-character separator
RECURSIVE SplitFrom(_, _, _, _)
SplitFrom(s, sep, i, cur) ==
    IF i > Len(s) THEN <<cur>>
    ELSE IF s[i] = sep THEN <<cur>> \o SplitFrom(s, sep, i + 1, <<>>)
    ELSE SplitFrom(s, sep, i + 1, Append(cur, s[i]))

Split(s, sep) == SplitFrom(s, sep, 1, <<>>)

\* replace(/"/g, '')
StripQuotes(s) == SelectSeq(s, LAMBDA c : c # Quote)

\* a JavaScript string is truthy when it is defined and not empty
Truthy(v) == v # Undefined /\ v # <<>>

-----------------------------------------------------------------------------
(* parseCSVLine: the quote-aware scanner. *)

RECURSIVE ScanLine(_, _, _, _, _)
ScanLine(line, i, current, inQuotes, values) ==
    IF i > Len(line) THEN Append(values, Trim(current))
    ELSE IF line[i] = Quote
         THEN IF inQuotes /\ i + 1 <= Len(line) /\ line[i + 1] = Quote
              THEN ScanLine(line, i + 2, Append(current, Quote), inQuotes, values)
              ELSE ScanLine(line, i + 1, current, ~inQuotes, values)
    ELSE IF line[i] = Comma /\ ~inQuotes
         THEN ScanLine(line, i + 1, <<>>, inQuotes, Append(values, Trim(current)))
    ELSE ScanLine(line, i + 1, Append(current, line[i]), inQuotes, values)

\* parseCSVLine that splits on every comma, the way the header line is split
SplitOnEveryComma(line) ==
    LET cells == Split(line, Comma)
    IN [i \in 1..Len(cells) |-> StripQuotes(Trim(cells[i]))]

parseCSVLine(line) == ScanLine(line, 1, <<>>, FALSE, <<>>)

-----------------------------------------------------------------------------
(* parseCSV *)

ParseErrorMessage == "CSV data appears to be empty or invalid"

NonBlankLines(text) ==
    SelectSeq(Split(text, NL), LAMBDA line : Trim(line) # <<>>)

Headers(lines) ==
    LET cells == Split(lines[1], Comma)
    IN [i \in 1..Len(cells) |-> StripQuotes(Trim(cells[i]))]

\* headers.forEach((header, index) => row[header] = values[index] || '')
\* a header that occurs twice keeps the value of its last column
RowOf(headers, values) ==
    [h \in {headers[i] : i \in 1..Len(headers)} |->
        LET last == CHOOSE i \in 1..Len(headers) :
                        /\ headers[i] = h
                        /\ \A j \in 1..Len(headers) : headers[j] = h => j <= i
        IN IF last <= Len(values) THEN values[last] ELSE <<>>]

Field(row, name) ==
    IF <<name>> \in DOMAIN row THEN row[<<name>>] ELSE Undefined

RowIsValid(row) == Truthy(Field(row, "Date")) /\ Truthy(Field(row, "Estimate"))

\* the result is [ok |-> TRUE, rows |-> ...] or a thrown Error
parseCSV(text) ==
    LET lines == NonBlankLines(text) IN
    IF Len(lines) < 2
    THEN [ok |-> FALSE, error |-> ParseErrorMessage]
    ELSE LET headers == Headers(lines)
             all == [i \in 1..(Len(lines) - 1) |->
                        RowOf(headers, parseCSVLine(Trim(lines[i + 1])))]
         IN [ok |-> TRUE, rows |-> SelectSeq(all, RowIsValid)]

-----------------------------------------------------------------------------
(* Date objects.  A valid date value is [y, m, d, h]: getFullYear(),       *)
(* getMonth() (0..11), getDate() and the hour of the local day.            *)

\* the Date whose time value is NaN
InvalidDate == [y |-> 0, m |-> 0, d |-> 0, h |-> 0]

IsValidDate(v) == v # InvalidDate

IsLeap(y) == (y % 4 = 0 /\ y % 100 # 0) \/ y % 400 = 0

DaysInMonth(y, m) ==
    IF m = 1 THEN (IF IsLeap(y) THEN 29 ELSE 28)
    ELSE IF m \in {3, 5, 8, 10} THEN 30
    ELSE 31

RECURSIVE DaysBeforeMonth(_, _)
DaysBeforeMonth(y, m) ==
    IF m = 0 THEN 0 ELSE DaysBeforeMonth(y, m - 1) + DaysInMonth(y, m - 1)

LeapsBefore(y) == ((y - 1) \div 4) - ((y - 1) \div 100) + ((y - 1) \div 400)

DaysBeforeYear(y) == 365 * (y - 1970) + LeapsBefore(y) - LeapsBefore(1970)

\* Date.prototype.getTime, in hours since the epoch instead of milliseconds
\* (read only of valid dates: the callers test !isNaN(getTime()) first)
getTime(v) ==
    (DaysBeforeYear(v.y) + DaysBeforeMonth(v.y, v.m) + (v.d - 1)) * 24 + v.h

\* a >= b on two Date objects: a comparison of their time values, false
\* when either is NaN
DateGE(a, b) ==
    IsValidDate(a) /\ IsValidDate(b) /\ getTime(a) >= getTime(b)

\* Date.prototype.setMonth(month): the month may lie outside 0..11, and a
\* day past the end of the resulting month rolls over into the next month
setMonth(v, month) ==
    LET total == v.y * 12 + month
        yy == total \div 12
        mm == total % 12
        dim == DaysInMonth(yy, mm)
    IN IF v.d <= dim
       THEN [v EXCEPT !.y = yy, !.m = mm]
       ELSE [v EXCEPT !.y = (total + 1) \div 12, !.m = (total + 1) % 12,
                      !.d = v.d - dim]

\* Date.prototype.setDate(day), for a day of the month that exists
setDate(v, day) == [v EXCEPT !.d = day]

\* new Date(0)
Epoch == [y |-> 1970, m |-> 0, d |-> 1, h |-> 0]

Day(y, m, d) == [y |-> y, m |-> m, d |-> d, h |-> 0]

\* new Date(string), on the date strings of the model; any other string
\* gives an invalid date
DateStrings ==
    [s \in {"11/20/2023", "12/1/2023", "1/15/2024", "1/15/2024 12:00",
            "1/31/2024", "2/15/2024"} |->
        CASE s = "11/20/2023" -> Day(2023, 10, 20)
          [] s = "12/1/2023" -> Day(2023, 11, 1)
          [] s = "1/15/2024" -> Day(2024, 0, 15)
          [] s = "1/15/2024 12:00" -> [Day(2024, 0, 15) EXCEPT !.h = 12]
          [] s = "1/31/2024" -> Day(2024, 0, 31)
          [] s = "2/15/2024" -> Day(2024, 1, 15)]

NewDate(str) ==
    IF Len(str) = 1 /\ str[1] \in DOMAIN DateStrings
    THEN DateStrings[str[1]]
    ELSE InvalidDate

\* parseFloat(string), on the numerals of the model: the longest numeric
\* prefix, NaN when there is none (undefined and '' included)
Numerals ==
    [s \in {"45", "28", "65", "48", "32", "68", "7.5", "5", "0"} |->
        CASE s = "45" -> Num(45) [] s = "28" -> Num(28) [] s = "65" -> Num(65)
          [] s = "48" -> Num(48) [] s = "32" -> Num(32) [] s = "68" -> Num(68)
          [] s = "7.5" -> Rat(15, 2) [] s = "5" -> Num(5) [] s = "0" -> Num(0)]

parseFloat(str) ==
    IF str # Undefined /\ str # <<>> /\ str[1] \in DOMAIN Numerals
    THEN Numerals[str[1]]
    ELSE NaN

\* x || 0 on a number: NaN and 0 are falsy
OrZero(x) == IF IsNum(x) THEN x ELSE Num(0)

-----------------------------------------------------------------------------
(* processDataForChart *)

monthNames ==
    <<"JAN", "FEB", "MAR", "APR", "MAY", "JUN",
      "JUL", "AUG", "SEP", "OCT", "NOV", "DEC">>

\* rawData.filter(row => row.Date && row.Estimate).map(row => {...}), without
\* the tracking of minDate
MapRow(row) ==
    [date |-> NewDate(Field(row, "Date")),
     estimate |-> OrZero(parseFloat(Field(row, "Estimate"))),
     fifthPercentile |-> OrZero(parseFloat(Field(row, "5th Percentile"))),
     ninetyFifthPercentile |-> OrZero(parseFloat(Field(row, "95th Percentile")))]

ProcessedData(rows) ==
    LET kept == SelectSeq(rows, RowIsValid)
    IN [i \in 1..Len(kept) |-> MapRow(kept[i])]

\* The Date object minDate names after the first k items: 0 is the object
\* made by new Date(0), i > 0 is the object items[i].date.
\* if (date >= minDate) { minDate = date; }
RECURSIVE MinDateRef(_, _)
MinDateRef(items, k) ==
    IF k = 0 THEN 0
    ELSE LET r == MinDateRef(items, k - 1)
             cur == IF r = 0 THEN Epoch ELSE items[r].date
         IN IF DateGE(items[k].date, cur) THEN k ELSE r

\* minDate.setMonth(minDate.getMonth() - 2); minDate.setDate(1);
WindowFloor(v) == setDate(setMonth(v, v.m - 2), 1)

\* The Date objects after the two calls on minDate, which change the object
\* minDate names (ref) and so the item that holds it
HeapAfterFloor(items, ref) ==
    [i \in 0..Len(items) |->
        LET v == IF i = 0 THEN Epoch ELSE items[i].date
        IN IF i = ref THEN WindowFloor(v) ELSE v]

\* .filter(item => !isNaN(item.date.getTime()) && item.date >= minDate)
Retained(heap, ref) ==
    {i \in DOMAIN heap \ {0} : IsValidDate(heap[i]) /\ DateGE(heap[i], heap[ref])}

\* Array.prototype.sort is stable: an element goes after the elements that
\* do not compare greater than it
RECURSIVE InsertByTime(_, _)
InsertByTime(sorted, x) ==
    IF sorted = <<>> THEN <<x>>
    ELSE IF getTime(x.date) - getTime(Head(sorted).date) < 0
         THEN <<x>> \o sorted
         ELSE <<Head(sorted)>> \o InsertByTime(Tail(sorted), x)

RECURSIVE SortByTime(_)
SortByTime(seq) ==
    IF seq = <<>> THEN <<>>
    ELSE InsertByTime(SortByTime(SubSeq(seq, 1, Len(seq) - 1)), seq[Len(seq)])

\* dateFilteredMinProcessedData
DateFiltered(items, heap, keep) ==
    LET live == [i \in 1..Len(items) |-> [items[i] EXCEPT !.date = heap[i]]]
        idx == SelectSeq([i \in 1..Len(items) |-> i], LAMBDA i : i \in keep)
    IN SortByTime([k \in 1..Len(idx) |-> live[idx[k]]])

\* DateKey with the time of day in the key
DateKeyWithTime(v) ==
    ToString(v.h) \o "-" \o ToString(v.d) \o "-" \o ToString(v.m) \o "-" \o ToString(v.y)

\* `${item.date.getDate()}-${item.date.getMonth()}-${item.date.getFullYear()}`
DateKey(v) == ToString(v.d) \o "-" \o ToString(v.m) \o "-" \o ToString(v.y)

RECURSIVE UniqueFrom(_, _, _)
UniqueFrom(seq, k, seenDate) ==
    IF k > Len(seq) THEN <<>>
    ELSE IF DateKey(seq[k].date) \notin seenDate
         THEN <<seq[k]>> \o UniqueFrom(seq, k + 1, seenDate \cup {DateKey(seq[k].date)})
         ELSE UniqueFrom(seq, k + 1, seenDate)

\* uniqueData
UniqueData(filtered) == UniqueFrom(filtered, 1, {})

\* `${currentMonth}-${item.date.getFullYear()}`
LabelKey(v) == monthNames[v.m + 1] \o "-" \o ToString(v.y)

\* LabelFor without the test of seenLabels
LabelForEveryRecord(v, seenLabels) == monthNames[v.m + 1]

LabelFor(v, seenLabels) ==
    IF LabelKey(v) \notin seenLabels THEN monthNames[v.m + 1] ELSE ""

RECURSIVE LabelsFrom(_, _, _)
LabelsFrom(seq, k, seenLabels) ==
    IF k > Len(seq) THEN <<>>
    ELSE <<LabelFor(seq[k].date, seenLabels)>>
         \o LabelsFrom(seq, k + 1, seenLabels \cup {LabelKey(seq[k].date)})

\* this.maxSteps = Math.max(this.maxSteps, item.estimate, item.fifthPercentile,
\*                          item.ninetyFifthPercentile), over uniqueData
RECURSIVE RunningMax(_, _, _)
RunningMax(seq, k, ms) ==
    IF k > Len(seq) THEN ms
    ELSE RunningMax(seq, k + 1,
            MathMax(MathMax(MathMax(ms, seq[k].estimate), seq[k].fifthPercentile),
                    seq[k].ninetyFifthPercentile))

\* StepSizeOf without the + 1
StepSizeWithoutOne(ms) ==
    IF IsNum(ms) THEN Num(MathCeil(RatDivInt(Num(MathCeil(ms)), 5))) ELSE NaN

\* this.stepSize = Math.ceil((Math.ceil(this.maxSteps) / 5) + 1)
StepSizeOf(ms) ==
    IF IsNum(ms)
    THEN Num(MathCeil(RatAdd(RatDivInt(Num(MathCeil(ms)), 5), Num(1))))
    ELSE NaN

\* this.maxSteps = Math.ceil(this.maxSteps / this.stepSize) * this.stepSize
\* (x / 0 is NaN or an infinity, and either of them times 0 is NaN)
MaxStepsOf(ms, step) ==
    IF IsNum(ms) /\ IsNum(step) /\ step.n # 0
    THEN Num(MathCeil(RatDivInt(ms, step.n)) * step.n)
    ELSE NaN

\* The body of processDataForChart from the mapped items on: what it returns
\* (labels, the three data arrays, rawData) and what it leaves in
\* this.maxSteps and this.stepSize.  floor and retained record the window
\* floor and the items that passed the filter.
ChartOf(items, ms) ==
    LET ref == MinDateRef(items, Len(items))
        heap == HeapAfterFloor(items, ref)
        keep == Retained(heap, ref)
        uniqueData == UniqueData(DateFiltered(items, heap, keep))
        running == RunningMax(uniqueData, 1, ms)
        step == StepSizeOf(running)
    IN [labels |-> LabelsFrom(uniqueData, 1, {}),
        estimateData |-> [k \in 1..Len(uniqueData) |-> uniqueData[k].estimate],
        fifthPercentileData |->
            [k \in 1..Len(uniqueData) |-> uniqueData[k].fifthPercentile],
        ninetyFifthPercentileData |->
            [k \in 1..Len(uniqueData) |-> uniqueData[k].ninetyFifthPercentile],
        rawData |-> uniqueData,
        floor |-> heap[ref],
        retained |-> keep,
        stepSize |-> step,
        maxSteps |-> MaxStepsOf(running, step)]

processDataForChart(rows, ms) ==
    LET processedData == ProcessedData(rows)
    IN [processedData |-> processedData, chartData |-> ChartOf(processedData, ms)]

-----------------------------------------------------------------------------
(* The sheet the reader is pointed at, as CSV text. *)

\* a cell: the empty string, or one word
W(s) == IF s = "" THEN <<>> ELSE <<s>>

HeaderLine ==
    <<"Date", Comma, "Estimate", Comma, "5th Percentile", Comma, "95th Percentile">>

Line(date, estimate, fifth, ninetyFifth) ==
    W(date) \o <<Comma>> \o W(estimate) \o <<Comma>> \o W(fifth)
            \o <<Comma>> \o W(ninetyFifth)

\* the data lines a sheet of the model is made of
DataLines ==
    { Line("1/15/2024", "45", "28", "65"),
      Line("2/15/2024", "48", "32", "68"),
      Line("11/20/2023", "abc", "", "7.5"),
      Line("12/1/2023", "45", "28", "65"),
      Line("1/31/2024", "48", "32", "68"),
      Line("not-a-date", "45", "28", "65"),
      Line("", "45", "28", "65"),
      <<"1/15/2024 12:00", Comma, Quote, "5", Comma, "000", Quote, Comma, Space, "28">> }

RECURSIVE JoinLines(_)
JoinLines(lines) ==
    IF lines = <<>> THEN <<>>
    ELSE Head(lines) \o <<NL>> \o JoinLines(Tail(lines))

\* the CSV export of the sheet: the header line, then the data lines, each
\* ended by a newline
SheetText(lines) == JoinLines(<<HeaderLine>> \o lines)

-----------------------------------------------------------------------------
(* The reader, the sheet and the chart last drawn. *)

NoChart == [kind |-> "none"]

ChartInit ==
    /\ sheet = <<>>
    /\ maxSteps = Num(0)
    /\ stepSize = Num(1)
    /\ calls = 0
    /\ chart = NoChart

\* The sheet gains a data line; the chart drawn from the old text is stale.
SheetEdited ==
    /\ Len(sheet) < MaxRows
    /\ \E line \in DataLines : sheet' = Append(sheet, line)
    /\ chart' = NoChart
    /\ UNCHANGED <<maxSteps, stepSize, calls>>

\* One run of the pipeline on the sheet's text: parseCSV, then
\* processDataForChart on its rows.
Pipeline ==
    /\ calls < MaxCalls
    /\ LET parsed == parseCSV(SheetText(sheet)) IN
       /\ parsed.ok
       /\ LET out == processDataForChart(parsed.rows, maxSteps) IN
          /\ chart' = [kind |-> "rows", callNo |-> calls + 1,
                       input |-> out.processedData, out |-> out.chartData]
          /\ maxSteps' = out.chartData.maxSteps
          /\ stepSize' = out.chartData.stepSize
    /\ calls' = calls + 1
    /\ UNCHANGED sheet

\* processDataForChart on the series it returned last: every record of
\* rawData is fed back as a row with the same date and values.
Refeed ==
    /\ calls < MaxCalls
    /\ chart.kind # "none"
    /\ LET out == ChartOf(chart.out.rawData, maxSteps) IN
       /\ chart' = [kind |-> "series", callNo |-> calls + 1,
                    input |-> chart.out.rawData, out |-> out]
       /\ maxSteps' = out.maxSteps
       /\ stepSize' = out.stepSize
    /\ calls' = calls + 1
    /\ UNCHANGED sheet

ChartNext ==
    \/ SheetEdited /\ UNCHANGED <<fetchVars, tipVars, scanVars>>
    \/ Pipeline /\ UNCHANGED <<fetchVars, tipVars, scanVars>>
    \/ Refeed /\ UNCHANGED <<fetchVars, tipVars, scanVars>>

-----------------------------------------------------------------------------
(* fetchData: the direct URL, then the proxies in order, then the sample. *)

\* source 0 is csvUrl, source i > 0 is corsProxies[i]
corsProxies ==
    <<"https://api.allorigins.win/raw?url=",
      "https://corsproxy.io/?",
      "https://cors-anywhere.herokuapp.com/">>

SampleRow(date, estimate, fifth, ninetyFifth) ==
    (<<"Date">> :> <<date>>) @@ (<<"Estimate">> :> <<estimate>>)
    @@ (<<"5th Percentile">> :> <<fifth>>) @@ (<<"95th Percentile">> :> <<ninetyFifth>>)

getSampleData ==
    << SampleRow("1/15/2024", "45", "28", "65"),
       SampleRow("2/15/2024", "48", "32", "68"),
       SampleRow("3/15/2024", "42", "25", "62"),
       SampleRow("4/15/2024", "38", "22", "58"),
       SampleRow("5/15/2024", "35", "20", "55"),
       SampleRow("6/15/2024", "32", "18", "52"),
       SampleRow("7/15/2024", "28", "15", "48"),
       SampleRow("8/15/2024", "25", "12", "42"),
       SampleRow("9/15/2024", "22", "10", "38"),
       SampleRow("10/15/2024", "35", "20", "55"),
       SampleRow("11/15/2024", "68", "45", "85"),
       SampleRow("12/15/2024", "52", "38", "74"),
       SampleRow("1/15/2025", "42", "28", "62"),
       SampleRow("2/15/2025", "38", "25", "58"),
       SampleRow("3/15/2025", "40", "26", "60") >>

\* the texts a source of the model answers with
Texts ==
    { <<>>,
      <<NL, Space, NL>>,
      HeaderLine \o <<NL>>,
      SheetText(<<Line("1/15/2024", "45", "28", "65")>>),
      SheetText(<<Line("1/15/2024", "45", "28", "65"),
                  Line("2/15/2024", "48", "32", "68")>>) }

NoOutcome == [kind |-> "none"]

FetchInit ==
    /\ pc = "idle"
    /\ responses = <<>>
    /\ contacted = <<>>
    /\ csvText = <<>>
    /\ outcome = NoOutcome

CurrentSource == contacted[Len(contacted)]

\* the sample data as the origin of rows, after the direct URL (0) and the
\* proxies (1..Len(corsProxies))
SampleSource == Len(corsProxies) + 1

\* a fetchData that throws when the last proxy has failed
FallThroughThrows ==
    IF CurrentSource < Len(corsProxies)
    THEN /\ contacted' = Append(contacted, CurrentSource + 1)
         /\ pc' = "fetch"
         /\ outcome' = outcome
    ELSE /\ contacted' = contacted
         /\ pc' = "done"
         /\ outcome' = [kind |-> "rejected", error |-> <<"All data sources failed">>]

\* What follows a source that did not give rows: the next proxy of the
\* loop, or, after the last one, return this.getSampleData().
FallThrough ==
    IF CurrentSource < Len(corsProxies)
    THEN /\ contacted' = Append(contacted, CurrentSource + 1)
         /\ pc' = "fetch"
         /\ outcome' = outcome
    ELSE /\ contacted' = contacted
         /\ pc' = "done"
         /\ outcome' = [kind |-> "resolved", from |-> SampleSource, rows |-> getSampleData]

\* fetchData is called: fetch(this.csvUrl) is started.
FetchDataCalled ==
    /\ pc = "idle"
    /\ pc' = "fetch"
    /\ contacted' = <<0>>
    /\ UNCHANGED <<responses, csvText, outcome>>

\* await fetch(...) throws: the catch clause, then the next source.
FetchFails ==
    /\ pc = "fetch"
    /\ responses' = Append(responses, [source |-> CurrentSource, kind |-> "error"])
    /\ FallThrough
    /\ UNCHANGED csvText

\* await fetch(...) gives a response with response.ok false.
ResponseNotOk ==
    /\ pc = "fetch"
    /\ responses' = Append(responses, [source |-> CurrentSource, kind |-> "not ok"])
    /\ FallThrough
    /\ UNCHANGED csvText

\* await fetch(...) gives a response with response.ok true; response.text()
\* is awaited.
ResponseOk ==
    /\ pc = "fetch"
    /\ pc' = "text"
    /\ UNCHANGED <<responses, contacted, csvText, outcome>>

\* await response.text() throws: the catch clause, then the next source.
TextFails ==
    /\ pc = "text"
    /\ responses' = Append(responses, [source |-> CurrentSource, kind |-> "no text"])
    /\ FallThrough
    /\ UNCHANGED csvText

\* await response.text() gives the text: return this.parseCSV(csvText), inside
\* the try block, so that what parseCSV throws is caught there as well.
TextArrives ==
    /\ pc = "text"
    /\ \E text \in Texts :
          /\ csvText' = text
          /\ responses' = Append(responses,
                 [source |-> CurrentSource, kind |-> "text", text |-> text])
          /\ LET parsed == parseCSV(text) IN
             IF parsed.ok
             THEN /\ pc' = "done"
                  /\ outcome' = [kind |-> "resolved", from |-> CurrentSource,
                                 rows |-> parsed.rows]
                  /\ contacted' = contacted
             ELSE FallThrough

FetchNext ==
    \/ FetchDataCalled /\ UNCHANGED <<chartVars, tipVars, scanVars>>
    \/ FetchFails /\ UNCHANGED <<chartVars, tipVars, scanVars>>
    \/ ResponseNotOk /\ UNCHANGED <<chartVars, tipVars, scanVars>>
    \/ ResponseOk /\ UNCHANGED <<chartVars, tipVars, scanVars>>
    \/ TextFails /\ UNCHANGED <<chartVars, tipVars, scanVars>>
    \/ TextArrives /\ UNCHANGED <<chartVars, tipVars, scanVars>>

-----------------------------------------------------------------------------
(* einCustomPositioner: the anchor of the tooltip. *)

xOffset == 0

\* yOffset with its sign lost
yOffsetUnsigned == Abs(-10)

yOffset == -10

estimateTitleText == "Estimate"
fifthPercentileTitleText == "5th Percentile"
ninetyFifthPercentileTitleText == "95th Percentile"

\* an element whose datasetIndex is undefined
NoIndex == -1

\* this.chart.data.datasets[i].label, in the order processDataForChart
\* lists the datasets
DatasetLabel(i) ==
    CASE i = 0 -> fifthPercentileTitleText
      [] i = 1 -> ninetyFifthPercentileTitleText
      [] i = 2 -> estimateTitleText

IsSeries(el, label) ==
    el.datasetIndex # NoIndex /\ DatasetLabel(el.datasetIndex) = label

\* FindEstimate that looks at the first element only
FindEstimateAtHead(elements) ==
    IF IsSeries(elements[1], estimateTitleText) THEN 1 ELSE 0

\* elements.find(el => ... label === estimateTitleText): the index of the
\* first such element, 0 when find returns undefined
FindEstimate(elements) ==
    IF \E i \in 1..Len(elements) : IsSeries(elements[i], estimateTitleText)
    THEN CHOOSE i \in 1..Len(elements) :
            /\ IsSeries(elements[i], estimateTitleText)
            /\ \A j \in 1..(i - 1) : ~IsSeries(elements[j], estimateTitleText)
    ELSE 0

\* PercentileElements that keeps the 5th percentile only
FifthPercentileElements(elements) ==
    SelectSeq(elements, LAMBDA el : IsSeries(el, fifthPercentileTitleText))

\* elements.filter(el => is5thPercentile || is95thPercentile)
PercentileElements(elements) ==
    SelectSeq(elements, LAMBDA el :
        IsSeries(el, fifthPercentileTitleText)
        \/ IsSeries(el, ninetyFifthPercentileTitleText))

\* elements.reduce((sum, el) => sum + el.element[c], 0), c being "x" or "y"
RECURSIVE SumOf(_, _, _)
SumOf(elements, c, k) ==
    IF k = 0 THEN Num(0)
    ELSE RatAdd(SumOf(elements, c, k - 1), elements[k].element[c])

Point(rule, x, y) == [kind |-> "point", rule |-> rule, x |-> x, y |-> y]

\* The point the positioner returns; rule names the return statement taken.
einCustomPositioner(elements, position) ==
    IF Len(elements) = 0
    THEN Point("cursor", RatAdd(position.x, Num(xOffset)),
                         RatAdd(position.y, Num(yOffset)))
    ELSE
    LET e == FindEstimate(elements)
        percentileElements == PercentileElements(elements)
    IN IF e # 0 /\ elements[e].element.x # UndefinedNumber
       THEN Point("estimate", RatAdd(elements[e].element.x, Num(xOffset)),
                              RatAdd(elements[e].element.y, Num(yOffset)))
       ELSE IF Len(percentileElements) >= 2
       THEN Point("between",
                  RatAdd(percentileElements[1].element.x, Num(xOffset)),
                  RatAdd(RatDivInt(RatAdd(percentileElements[1].element.y,
                                          percentileElements[2].element.y), 2),
                         Num(yOffset)))
       ELSE IF Len(percentileElements) = 1
       THEN Point("single",
                  RatAdd(percentileElements[1].element.x, Num(xOffset)),
                  RatAdd(percentileElements[1].element.y, Num(yOffset)))
       ELSE Point("centroid",
                  RatAdd(RatDivInt(SumOf(elements, "x", Len(elements)),
                                   Len(elements)), Num(xOffset)),
                  RatAdd(RatDivInt(SumOf(elements, "y", Len(elements)),
                                   Len(elements)), Num(yOffset)))

\* the pixel positions of the model, and an element not yet laid out
Resolved == { [x |-> Num(5), y |-> Num(5)], [x |-> Num(10), y |-> Num(20)],
              [x |-> Num(10), y |-> Num(40)], [x |-> Num(12), y |-> Num(7)] }

Unresolved == [x |-> UndefinedNumber, y |-> UndefinedNumber]

\* tooltip mode 'index' gives at most one active element per dataset
Elements ==
    [datasetIndex : {NoIndex, 0, 1, 2}, element : Resolved \cup {Unresolved}]

Cursors == { [x |-> Num(0), y |-> Num(0)], [x |-> Num(30), y |-> Num(15)] }

TipInit ==
    /\ active = <<>>
    /\ eventPosition = [x |-> Num(0), y |-> Num(0)]
    /\ anchor = [kind |-> "none"]

\* The pointer moves to an index where nothing is active yet; the tooltip
\* is positioned for the empty set.
PointerMoved ==
    \E position \in Cursors :
        /\ active' = <<>>
        /\ eventPosition' = position
        /\ anchor' = einCustomPositioner(<<>>, position)

\* One more element is active at the pointer; the tooltip is positioned for
\* the new set.
ElementActivated ==
    /\ Len(active) < MaxElements
    /\ \E el \in Elements :
          /\ el.datasetIndex # NoIndex
             => \A i \in 1..Len(active) : active[i].datasetIndex # el.datasetIndex
          /\ active' = Append(active, el)
          /\ anchor' = einCustomPositioner(Append(active, el), eventPosition)
    /\ UNCHANGED eventPosition

TipNext ==
    \/ PointerMoved /\ UNCHANGED <<chartVars, fetchVars, scanVars>>
    \/ ElementActivated /\ UNCHANGED <<chartVars, fetchVars, scanVars>>

-----------------------------------------------------------------------------
(* parseCSVLine on its own: a data line, and the values scanned from it. *)

\* the characters of the data lines of the model
LineTokens == {Comma, Quote, Space, "5", "000"}

RECURSIVE LinesOfLen(_)
LinesOfLen(k) ==
    IF k = 0 THEN {<<>>}
    ELSE {Append(l, t) : l \in LinesOfLen(k - 1), t \in LineTokens}

\* parseCSV hands parseCSVLine the trimmed line, which is not empty
Lines ==
    {l \in UNION {LinesOfLen(k) : k \in 1..MaxLineLen} : Trim(l) = l}

\* no line was scanned yet (parseCSVLine returns at least one value)
NotScanned == <<>>

ScanIdle ==
    /\ dataLine = <<>>
    /\ scanned = NotScanned

\* const values = this.parseCSVLine(line)
LineScanned ==
    /\ scanned = NotScanned
    /\ scanned' = parseCSVLine(dataLine)
    /\ UNCHANGED dataLine

ScanNext == LineScanned /\ UNCHANGED <<chartVars, fetchVars, tipVars>>

-----------------------------------------------------------------------------
(* The specifications: the pipeline, the retrieval, the tooltip and the    *)
(* line scanner each on their own, the rest of the state at rest.          *)

Init == ChartInit /\ FetchInit /\ TipInit /\ ScanIdle

\* a data line of the model is about to be scanned
ScanInit ==
    /\ ChartInit /\ FetchInit /\ TipInit
    /\ dataLine \in Lines
    /\ scanned = NotScanned

Next == ChartNext \/ FetchNext \/ TipNext \/ ScanNext

ChartSpec == Init /\ [][ChartNext]_vars

FetchSpec == Init /\ [][FetchNext]_vars

\* await fetch(...) settles, one way or another
FetchSettles ==
    (FetchFails \/ ResponseNotOk \/ ResponseOk)
    /\ UNCHANGED <<chartVars, tipVars, scanVars>>

\* await response.text() settles, one way or another
TextSettles ==
    (TextFails \/ TextArrives) /\ UNCHANGED <<chartVars, tipVars, scanVars>>

\* fetchData when every request it awaits completes
FetchLive ==
    Init /\ [][FetchNext]_vars /\ WF_vars(FetchSettles) /\ WF_vars(TextSettles)

TipSpec == Init /\ [][TipNext]_vars

ScanSpec == ScanInit /\ [][ScanNext]_vars

Spec == Init /\ [][Next]_vars

-----------------------------------------------------------------------------
(* What the claims speak of. *)

SameDay(a, b) == a.y = b.y /\ a.m = b.m /\ a.d = b.d

ValidInputs == {i \in 1..Len(chart.input) : IsValidDate(chart.input[i].date)}

\* the latest valid date among the rows of the call
LatestInput ==
    LET i == CHOOSE i \in ValidInputs :
                 \A j \in ValidInputs : DateGE(chart.input[i].date, chart.input[j].date)
    IN chart.input[i].date

\* the first day of the calendar month two months before the month of v
MonthFloor(v) ==
    LET total == v.y * 12 + v.m - 2
    IN [y |-> total \div 12, m |-> total % 12, d |-> 1, h |-> v.h]

Series == chart.out.rawData

Ascending(seq) ==
    \A i, j \in 1..Len(seq) : i < j => getTime(seq[i].date) < getTime(seq[j].date)

\* C1: on a fresh reader, rows whose dates all lie on or after the window
\* floor come back as the series: one record per calendar day of the input,
\* each with the date of its own row, ascending, the latest date last; the
\* rows 1/15/2024 (45,28,65) and 2/15/2024 (48,32,68) give two records in
\* that order, labels JAN and FEB, step 15 and max 75.
C1_FreshRowsComeBack ==
    (/\ chart.kind = "rows"
     /\ chart.callNo = 1
     /\ ValidInputs = 1..Len(chart.input)
     /\ chart.input # <<>>
     /\ \A i \in ValidInputs : DateGE(chart.input[i].date, MonthFloor(LatestInput)))
    => /\ \A k \in 1..Len(Series) :
             \E i \in ValidInputs : chart.input[i].date = Series[k].date
       /\ \A i \in ValidInputs :
             \E k \in 1..Len(Series) : SameDay(chart.input[i].date, Series[k].date)
       /\ \A k, l \in 1..Len(Series) :
             SameDay(Series[k].date, Series[l].date) => k = l
       /\ Ascending(Series)
       /\ SameDay(Series[Len(Series)].date, LatestInput)
       /\ sheet = <<Line("1/15/2024", "45", "28", "65"),
                    Line("2/15/2024", "48", "32", "68")>>
          => /\ chart.out.labels = <<"JAN", "FEB">>
             /\ chart.out.estimateData = <<Num(45), Num(48)>>
             /\ stepSize = Num(15)
             /\ maxSteps = Num(75)

\* the maximum of the estimate and bound values of a series, 0 when empty
RawMax(seq) == RunningMax(seq, 1, Num(0))

\* C2: after any call, step = ceil(ceil(rawMax)/5 + 1) and
\* max = ceil(rawMax/step) * step, rawMax being the maximum value of the
\* series of that call alone.
C2_ScaleFromLatestSeriesOnly ==
    chart.kind # "none"
    => /\ stepSize = StepSizeOf(RawMax(Series))
       /\ maxSteps = MaxStepsOf(RawMax(Series), StepSizeOf(RawMax(Series)))

\* C3: a series fed back as rows comes back unchanged.
C3_NormalizeIdempotent ==
    chart.kind = "series" => Series = chart.input

\* C4: the window floor is the first day of the month two months before the
\* month of the latest valid date, and a row is retained exactly when its
\* date is valid and not before that floor.
C4_FloorIsMonthStartTwoBack ==
    (chart.kind = "rows" /\ ValidInputs # {})
    => /\ SameDay(chart.out.floor, MonthFloor(LatestInput))
       /\ \A i \in 1..Len(chart.input) :
             i \in chart.out.retained
             <=> (i \in ValidInputs
                  /\ DateGE(chart.input[i].date, MonthFloor(LatestInput)))

\* C5: the series made from rows of parseCSV is strictly ascending by date
\* and holds no two records of one calendar day.
C5_SeriesStrictlyAscending ==
    chart.kind = "rows"
    => /\ Ascending(Series)
       /\ \A i, j \in 1..Len(Series) :
             SameDay(Series[i].date, Series[j].date) => i = j

\* rows out of order, two of them on one calendar day, and a series of at
\* least two records
C5_Witness ==
    /\ chart.kind = "rows"
    /\ Len(Series) >= 2
    /\ \E i, j \in ValidInputs :
          i < j /\ SameDay(chart.input[i].date, chart.input[j].date)
    /\ \E i, j \in ValidInputs :
          i < j /\ ~DateGE(chart.input[j].date, chart.input[i].date)

IsInteger(a) == IsNum(a) /\ a.d = 1

\* C6: after every call step is an integer >= 1, max is a multiple of step
\* and no value of the series exceeds max; an empty series on a fresh reader
\* gives step 1 and a max that is a number.
C6_ScaleWellFormed ==
    chart.kind # "none"
    => /\ IsInteger(stepSize) /\ stepSize.n >= 1
       /\ IsInteger(maxSteps) /\ maxSteps.n % stepSize.n = 0
       /\ \A k \in 1..Len(Series) :
             /\ RatLE(Series[k].estimate, maxSteps)
             /\ RatLE(Series[k].fifthPercentile, maxSteps)
             /\ RatLE(Series[k].ninetyFifthPercentile, maxSteps)
       /\ (chart.callNo = 1 /\ Series = <<>>) => stepSize = Num(1) /\ maxSteps = Num(0)

\* a repeated call whose series holds a value that is not an integer
C6_Witness ==
    /\ chart.kind # "none"
    /\ chart.callNo >= 2
    /\ \E k \in 1..Len(Series) : Series[k].ninetyFifthPercentile.d # 1

\* C7: one label per record; of the records of one (month, year) pair the
\* first carries the month abbreviation and the others the empty string.
C7_OneLabelPerMonth ==
    chart.kind # "none"
    => /\ Len(chart.out.labels) = Len(Series)
       /\ \A k \in 1..Len(Series) :
             LET first == \A j \in 1..(k - 1) :
                              ~(Series[j].date.m = Series[k].date.m
                                /\ Series[j].date.y = Series[k].date.y)
             IN chart.out.labels[k] =
                    IF first THEN monthNames[Series[k].date.m + 1] ELSE ""

\* a series with two records of one month and a record of another month
C7_Witness ==
    /\ chart.kind # "none"
    /\ \E i, j, k \in 1..Len(Series) :
          /\ i < j
          /\ Series[i].date.m = Series[j].date.m
          /\ Series[k].date.m # Series[i].date.m
    /\ Len(chart.out.labels) = Len(Series)

\* C8: text with fewer than 2 non-blank lines makes parseCSV fail with the
\* parse error, and the caller sees that error, also when fetchData got the
\* text from a source that responded successfully.
C8_ParseErrorSurfaced ==
    /\ \A text \in Texts :
          Len(NonBlankLines(text)) < 2
          => parseCSV(text) = [ok |-> FALSE, error |-> ParseErrorMessage]
    /\ (/\ pc = "done"
        /\ \E i \in 1..Len(responses) :
              /\ responses[i].kind = "text"
              /\ Len(NonBlankLines(responses[i].text)) < 2)
       => /\ outcome.kind = "rejected"
          /\ outcome.error = ParseErrorMessage

\* v + k on a coordinate (NaN when the coordinate is not a number)
Shift(v, k) == IF v.d = 0 THEN NaN ELSE Rat(v.n + k * v.d, v.d)

\* (a + b) / 2 on two coordinates
Midpoint(a, b) ==
    IF a.d = 0 \/ b.d = 0 THEN NaN ELSE Rat(a.n * b.d + b.n * a.d, 2 * a.d * b.d)

ResolvedEstimates ==
    {i \in 1..Len(active) :
        /\ active[i].datasetIndex = 2
        /\ active[i].element.x # UndefinedNumber}

\* C9: an active Estimate element with resolved coordinates is the anchor,
\* shifted by (0, -10), whatever else is active and wherever it stands.
C9_EstimateAnchors ==
    anchor.kind = "point"
    => \A i \in ResolvedEstimates :
          /\ anchor.x = active[i].element.x
          /\ anchor.y = Shift(active[i].element.y, -10)

\* three active elements, the Estimate element not the first of them
C9_Witness ==
    /\ anchor.kind = "point"
    /\ Len(active) = 3
    /\ \E i \in ResolvedEstimates : i > 1
    /\ \E j \in 1..Len(active) : active[j].datasetIndex \in {0, 1}

\* the active LowBound (5th percentile) and HighBound (95th percentile) elements
Bounds == {i \in 1..Len(active) : active[i].datasetIndex \in {0, 1}}

FirstBound == CHOOSE i \in Bounds : \A j \in Bounds : i <= j

LastBound == CHOOSE i \in Bounds : \A j \in Bounds : j <= i

BoundAnchors ==
    /\ Cardinality(Bounds) = 2
       => /\ anchor.x = Shift(active[FirstBound].element.x, 0)
          /\ anchor.y = Shift(Midpoint(active[FirstBound].element.y,
                                       active[LastBound].element.y), -10)
    /\ Cardinality(Bounds) = 1
       => /\ anchor.x = Shift(active[FirstBound].element.x, 0)
          /\ anchor.y = Shift(active[FirstBound].element.y, -10)

\* C10 as stated: with elements active and no resolved Estimate element among
\* them, both bounds give (x of the first, midpoint of the y values), one
\* bound gives its own position, each shifted by the bias, and the centroid
\* is used only when no active element belongs to a known series.
C10_CentroidOnlyForUnknownSeries ==
    (anchor.kind = "point" /\ active # <<>> /\ ResolvedEstimates = {})
    => /\ BoundAnchors
       /\ anchor.rule = "centroid"
          => \A i \in 1..Len(active) : active[i].datasetIndex = NoIndex

\* C10 as amended: the centroid is used only when no LowBound or HighBound
\* element is active; an Estimate element without resolved coordinates may
\* be among the elements averaged.
C10_CentroidOnlyWithoutBounds ==
    (anchor.kind = "point" /\ active # <<>> /\ ResolvedEstimates = {})
    => /\ BoundAnchors
       /\ anchor.rule = "centroid" => Bounds = {}

\* LowBound at (10, 20) and HighBound at (10, 40) give (10, 30) plus the bias
C10_Witness ==
    /\ active = << [datasetIndex |-> 0, element |-> [x |-> Num(10), y |-> Num(20)]],
                   [datasetIndex |-> 1, element |-> [x |-> Num(10), y |-> Num(40)]] >>
    /\ anchor.kind = "point"
    /\ anchor.x = Num(10)
    /\ anchor.y = Num(20)

\* the sum of the numerators of coordinate c over the active elements, all
\* of them whole numbers
RECURSIVE SumN(_, _)
SumN(c, k) == IF k = 0 THEN 0 ELSE SumN(c, k - 1) + active[k].element[c].n

\* the arithmetic mean of coordinate c over the active elements
MeanOf(c) ==
    IF \E k \in 1..Len(active) : active[k].element[c].d = 0
    THEN NaN
    ELSE Rat(SumN(c, Len(active)), Len(active))

\* the point the anchor is taken from, by the priority rule
BasePoint ==
    IF active = <<>> THEN eventPosition
    ELSE IF ResolvedEstimates # {}
         THEN active[CHOOSE i \in ResolvedEstimates : TRUE].element
    ELSE IF Cardinality(Bounds) = 2
         THEN [x |-> active[FirstBound].element.x,
               y |-> Midpoint(active[FirstBound].element.y,
                              active[LastBound].element.y)]
    ELSE IF Cardinality(Bounds) = 1 THEN active[FirstBound].element
    ELSE [x |-> MeanOf("x"), y |-> MeanOf("y")]

\* C11: every point the positioner returns is its base point shifted by
\* exactly (0, -10); with no element active the base point is the cursor
\* position.
C11_AnchorIsBaseShifted ==
    anchor.kind = "point"
    => /\ anchor.x = Shift(BasePoint.x, 0)
       /\ anchor.y = Shift(BasePoint.y, -10)
       /\ active = <<>>
          => /\ anchor.x = eventPosition.x
             /\ anchor.y = Shift(eventPosition.y, -10)

\* the pointer at (30, 15) with nothing active: the anchor is (30, 5)
C11_Witness ==
    /\ active = <<>>
    /\ eventPosition = [x |-> Num(30), y |-> Num(15)]
    /\ anchor.kind = "point"
    /\ anchor.x = Num(30)
    /\ anchor.y = Num(5)

\* the quote characters of l before position i
QuotesBefore(l, i) == Cardinality({j \in 1..(i - 1) : l[j] = Quote})

\* the commas of l outside quoted spans: an even number of quotes precedes
OutsideCommas(l) ==
    {i \in 1..Len(l) : l[i] = Comma /\ QuotesBefore(l, i) % 2 = 0}

\* the position of the k-th comma outside quoted spans; 0 for k = 0 and
\* Len(l) + 1 past the last one
CutAt(l, k) ==
    IF k = 0 THEN 0
    ELSE IF k > Cardinality(OutsideCommas(l)) THEN Len(l) + 1
    ELSE CHOOSE i \in OutsideCommas(l) :
            Cardinality({j \in OutsideCommas(l) : j <= i}) = k

\* the k-th stretch of l between commas outside quoted spans
Segment(l, k) == SubSeq(l, CutAt(l, k - 1) + 1, CutAt(l, k) - 1)

\* a stretch that starts outside a quoted span, without its enclosing
\* quotes, a doubled quote inside a span being one quote character
RECURSIVE Unquoted(_, _)
Unquoted(seg, inSpan) ==
    IF seg = <<>> THEN <<>>
    ELSE IF Head(seg) # Quote THEN <<Head(seg)>> \o Unquoted(Tail(seg), inSpan)
    ELSE IF inSpan /\ Len(seg) >= 2 /\ seg[2] = Quote
         THEN <<Quote>> \o Unquoted(Tail(Tail(seg)), TRUE)
    ELSE Unquoted(Tail(seg), ~inSpan)

\* C12: parseCSVLine returns 1 + (number of commas outside quoted spans)
\* fields; each is its stretch of the line without the enclosing quotes, a
\* comma inside a quoted span kept and a doubled quote inside a span one
\* quote character; "5,000" in quotes is the single value 5,000.
C12_FieldsSplitOutsideQuotes ==
    scanned # NotScanned
    => /\ Len(scanned) = 1 + Cardinality(OutsideCommas(dataLine))
       /\ \A k \in 1..Len(scanned) :
             scanned[k] = Trim(Unquoted(Segment(dataLine, k), FALSE))
       /\ dataLine = <<Quote, "5", Comma, "000", Quote>>
          => scanned = << <<"5", Comma, "000">> >>

\* the quoted field "5,000" was scanned to the one value 5,000
C12_Witness ==
    /\ dataLine = <<Quote, "5", Comma, "000", Quote>>
    /\ scanned = << <<"5", Comma, "000">> >>

\* a source that did not give rows: the request failed, the response was
\* not ok, its text could not be read, or its text did not parse
SourceFailed(r) ==
    \/ r.kind \in {"error", "not ok", "no text"}
    \/ r.kind = "text" /\ ~parseCSV(r.text).ok

\* the sources are contacted in order, each after all before it have failed,
\* and what fetchData resolves with comes from the first that gave rows
SourcesInOrder ==
    /\ \A i \in 1..Len(contacted) : contacted[i] = i - 1
    /\ Len(contacted) <= 1 + Len(corsProxies)
    /\ Len(responses) <= Len(contacted)
    /\ \A i \in 1..Len(responses) : responses[i].source = contacted[i]
    /\ \A i \in 2..Len(contacted) :
          \A j \in 1..(i - 1) : j <= Len(responses) /\ SourceFailed(responses[j])
    /\ outcome.kind \in {"none", "resolved"}
    /\ (pc = "done") = (outcome.kind = "resolved")
    /\ outcome.kind = "resolved"
       => IF outcome.from = SampleSource
          THEN /\ Len(contacted) = 1 + Len(corsProxies)
               /\ Len(responses) = Len(contacted)
               /\ \A j \in 1..Len(responses) : SourceFailed(responses[j])
               /\ outcome.rows = getSampleData
          ELSE /\ outcome.from = CurrentSource
               /\ Len(responses) = Len(contacted)
               /\ \A j \in 1..(Len(responses) - 1) : SourceFailed(responses[j])
               /\ ~SourceFailed(responses[Len(responses)])
               /\ outcome.rows = parseCSV(responses[Len(responses)].text).rows

\* C13: fetchData tries the direct URL, then each proxy in list order, then
\* the sample data; a source is started only after every earlier one has
\* failed; the rows are those of the first source that gives rows and no
\* later source is contacted; when each request completes the call always
\* eventually resolves with rows, and it never rejects.
C13_FirstSourceWithRowsWins ==
    /\ []SourcesInOrder
    /\ [][pc = "done" => contacted' = contacted]_vars
    /\ (pc # "idle") ~> (pc = "done" /\ outcome.kind = "resolved")

\* the second proxy gave the rows after the direct URL and the first proxy
\* had failed
C13_Witness ==
    /\ pc = "done"
    /\ contacted = <<0, 1, 2>>
    /\ outcome.kind = "resolved"
    /\ outcome.from = 2
    /\ SourceFailed(responses[1])
    /\ SourceFailed(responses[2])

====
